---- MODULE Spec2Model ----
(***************************************************************************)
(* GattClient (src/src/gattclient.cpp): a synchronous BLE GATT driver on   *)
(* top of a command/event transport (Bled112Client).                       *)
(*                                                                         *)
(* The driver is single threaded.  Every public operation is a sequence of *)
(* transport calls (client.write / client.read / readResponse) and user    *)
(* callback invocations.  The model takes one step per transport call or   *)
(* callback invocation; the step also performs the local computation that  *)
(* follows the call up to the next one.  What the transport delivers and   *)
(* what the callbacks answer is chosen by the environment.                 *)
(*                                                                         *)
(* `trace` is the observable history of the running (or last) call: the    *)
(* commands written, the messages read and the callbacks invoked, in       *)
(* order.  The variables marked `history` and the `id` carried by         *)
(* buffered events record what happened: they never influence the driver.  *)
(***************************************************************************)
EXTENDS Integers, Sequences, FiniteSets, TLC

\* ------------------------------------------------------------------ bounds
\* Number of unsolicited attribute-value events the transport delivers to
\* readAttribute over a whole run.
MaxEvents == 2
\* Number of messages the transport delivers to one discover scan loop.
MaxScan == 2
\* Longest attribute payload.
MaxLen == 1
\* Number of information-found events the transport delivers to one
\* characteristics call.
MaxInfo == 2

\* -------------------------------------------------------------- constants
\* The dongle supports 3 connections (loop bound in connect, disconnectAll).
NumSlots == 3

Slots == 0 .. (NumSlots - 1)

\* Two 6-byte peer addresses (std::array<std::uint8_t, 6>).
AddrA == <<1, 2, 3, 4, 5, 6>>
AddrB == <<1, 2, 3, 4, 5, 7>>
Addresses == {AddrA, AddrB}

\* Attribute handles (std::uint16_t) used by the environment.
Handles == {42, 48}

\* Attribute payloads (Buffer): byte sequences of length 0 .. MaxLen.
Payloads == UNION {[1 .. n -> {1}] : n \in 0 .. MaxLen}

\* A payload one byte longer than a std::uint8_t can count.
LongPayload == [n \in 1 .. 256 |-> 1]

\* static_cast<std::uint8_t>(value)
Uint8(value) == value % 256

\* Characteristic UUIDs (Buffer) and the lengths an information-found event
\* declares for them.
Uuids == {<<24, 0>>, <<24, 1>>}
UuidLengths == {2, 16}

\* ConnectionStatusEvent.flags, a bit set; Connected is one of its bits.
StatusFlags == {{}, {"Connected"}}

VARIABLES
    connected_,     \* GattClient::connected_
    connection,     \* GattClient::connection (active slot)
    address_,       \* GattClient::address_
    event_queue,    \* GattClient::event_queue
    pc,             \* control point of the running call, "idle" between calls
    op,             \* name of the running (or last) call
    ret,            \* "running", or how the last call ended: "ok" / "error"
    result,         \* <<data>> once readAttribute has returned data, else <<>>
    address,        \* argument of connect
    slot,           \* argument of disconnect (current slot in disconnectAll)
    all,            \* TRUE while disconnect runs on behalf of disconnectAll
    handle,         \* argument of readAttribute / writeAttribute
    payload,        \* argument of writeAttribute
    i,              \* loop variable of connect / disconnectAll
    idx,            \* position of listen's range-for in event_queue
    running,        \* discover's / characteristics' local flag
    chr,            \* characteristics' local map, uuid -> handle
    ss,             \* connect(string)'s std::istringstream
    trace,          \* transport calls and callback invocations of the call
    arrivals,       \* history: number of events buffered so far
    delivered,      \* history: ids of the events a listen callback took
    duplicated,     \* history: ids listen callbacks took more than once
    pending,        \* history: events buffered since the last listen call
    active,         \* history: slot of the connection the calls left open
    entry,          \* history: connection state when the call was entered
    peer,           \* history: address of the last connect that returned
    opened          \* history: slots connect left open, not yet disconnected

vars == <<connected_, connection, address_, event_queue, pc, op, ret, result,
          address, slot, all, handle, payload, i, idx, running, chr, ss,
          trace, arrivals, delivered, duplicated, pending, active, entry,
          peer, opened>>

members == <<connected_, connection, address_, event_queue>>
history == <<arrivals, delivered, duplicated>>
observed == <<pending, active, entry, peer, opened>>
locals == <<address, slot, all, handle, payload, i, idx, running>>
scratch == <<chr, ss>>

\* ------------------------------------------------------------ trace items
Wr(cmd) == [k |-> "write"] @@ cmd
Rd(msg) == [k |-> "read"] @@ msg
Cb(args) == [k |-> "callback"] @@ args

IsWrite(e, name) == e.k = "write" /\ e.m = name
IsRead(e, name) == e.k = "read" /\ e.m = name
IsCallback(e) == e.k = "callback"

\* Positions of the trace items that satisfy P.
Positions(P(_)) == {n \in 1 .. Len(trace) : P(trace[n])}

\* No std::istringstream: the call is not connect(string).
NoStream == [str |-> <<>>, pos |-> 1, good |-> FALSE]

\* ------------------------------------------------------------ construction
\* The member initialisers are in gattclient.h: the driver starts
\* disconnected with an empty event buffer.
InitConnected == FALSE

\* GattClient::GattClient.  `connection` and `address_` have no value the
\* constructor gives them: any slot, any address.
Init ==
    /\ connected_ = InitConnected
    /\ connection \in Slots
    /\ address_ \in Addresses
    /\ event_queue = <<>>
    /\ pc = "idle"
    /\ op = "none"
    /\ ret = "ok"
    /\ result = <<>>
    /\ address = AddrA
    /\ slot = 0
    /\ all = FALSE
    /\ handle = 0
    /\ payload = <<>>
    /\ i = 0
    /\ idx = 0
    /\ running = FALSE
    /\ trace = <<>>
    /\ arrivals = 0
    /\ delivered = {}
    /\ duplicated = {}
    /\ pending = <<>>
    /\ active = {}
    /\ entry = [connected_ |-> connected_, connection |-> connection,
                address_ |-> address_, active |-> {}, queued |-> 0,
                opened |-> {}]
    /\ chr = <<>>
    /\ ss = NoStream
    /\ peer = <<>>
    /\ opened = {}

\* A public method is entered: between calls only (the driver is not
\* reentrant), with fresh locals and an empty trace; `stream` is the text
\* connect(string) parses, NoStream in every other method.
EnterWith(name, first, stream) ==
    /\ pc = "idle"
    /\ pc' = first
    /\ op' = name
    /\ ret' = "running"
    /\ result' = <<>>
    /\ trace' = <<>>
    /\ chr' = <<>>
    /\ ss' = stream
    /\ entry' = [connected_ |-> connected_, connection |-> connection,
                 address_ |-> address_, active |-> active,
                 queued |-> Len(event_queue), opened |-> opened]
    /\ pending' = IF op = "listen" THEN <<>> ELSE pending
    /\ active' = active
    /\ peer' = peer
    /\ opened' = opened

Enter(name, first) == EnterWith(name, first, NoStream)

\* The running call returns normally / leaves by an exception.
Return == pc' = "idle" /\ ret' = "ok"
Throw == pc' = "idle" /\ ret' = "error"

\* template readResponse<T>() (gattclient.h): awaits the message of type T.
readResponse(msg) == trace' = Append(trace, Rd(msg))

\* ----------------------------------------------------------------- connect
\* Variant of Revives that tests another bit of the flags.
RevivesWrongFlag(status, addr) ==
    /\ "Completed" \in status.flags
    /\ status.address = addr

\* The test of the revival loop: the slot is connected to the wanted peer.
Revives(status, addr) ==
    /\ "Connected" \in status.flags
    /\ status.address = addr

\* connect(address) is called.
Connect ==
    \E a \in Addresses :
        /\ Enter("connect", "connect_get_status")
        /\ address' = a
        /\ i' = 0
        /\ slot' = 0 /\ all' = FALSE /\ handle' = 0 /\ payload' = <<>>
        /\ idx' = 0 /\ running' = FALSE
        /\ UNCHANGED <<members, history>>

\* client.write(ConnectionGetStatus{i})
ConnectGetStatus ==
    /\ pc = "connect_get_status"
    /\ trace' = Append(trace, Wr([m |-> "ConnectionGetStatus", connection |-> i]))
    /\ pc' = "connect_status_response"
    /\ UNCHANGED <<members, history, locals, op, ret, result>>
    /\ UNCHANGED observed
    /\ UNCHANGED scratch

\* (void)readResponse<ConnectionGetStatusResponse>()
ConnectStatusResponse ==
    /\ pc = "connect_status_response"
    /\ readResponse([m |-> "ConnectionGetStatusResponse"])
    /\ pc' = "connect_status_event"
    /\ UNCHANGED <<members, history, locals, op, ret, result>>
    /\ UNCHANGED observed
    /\ UNCHANGED scratch

\* auto status = readResponse<ConnectionStatusEvent>(), then the test of the
\* revival loop: adopt slot i and return, or go on with the next slot, or
\* leave the loop for the direct connect.
ConnectStatusEvent ==
    /\ pc = "connect_status_event"
    /\ \E f \in StatusFlags, a \in Addresses :
        LET status == [m |-> "ConnectionStatusEvent", flags |-> f, address |-> a]
        IN  /\ readResponse(status)
            /\ IF Revives(status, address)
               THEN /\ connection' = i
                    /\ i' = i
                    /\ active' = {i}
                    /\ peer' = address
                    /\ opened' = opened \cup {i}
                    /\ Return
               ELSE /\ connection' = connection
                    /\ i' = i + 1
                    /\ active' = active
                    /\ peer' = peer
                    /\ opened' = opened
                    /\ ret' = ret
                    /\ pc' = IF i + 1 < NumSlots THEN "connect_get_status"
                                                 ELSE "connect_direct"
    /\ UNCHANGED <<connected_, address_, event_queue, history, op, result,
                   address, slot, all, handle, payload, idx, running>>
    /\ UNCHANGED <<pending, entry>>
    /\ UNCHANGED scratch

\* client.write(GapConnectDirect{address, ...})
ConnectDirect ==
    /\ pc = "connect_direct"
    /\ trace' = Append(trace, Wr([m |-> "GapConnectDirect", address |-> address]))
    /\ pc' = "connect_direct_response"
    /\ UNCHANGED <<members, history, locals, op, ret, result>>
    /\ UNCHANGED observed
    /\ UNCHANGED scratch

\* const auto response = readResponse<GapConnectDirectResponse>();
\* connection = response.connection_handle;
ConnectDirectResponse ==
    /\ pc = "connect_direct_response"
    /\ \E h \in Slots :
        /\ readResponse([m |-> "GapConnectDirectResponse", connection_handle |-> h])
        /\ connection' = h
    /\ pc' = "connect_direct_event"
    /\ UNCHANGED <<connected_, address_, event_queue, history, locals, op, ret,
                   result>>
    /\ UNCHANGED observed
    /\ UNCHANGED scratch

\* Variant of ConnectDirectEvent that does not store the peer address.
ConnectDirectEventKeepsAddress ==
    /\ pc = "connect_direct_event"
    /\ \E f \in StatusFlags, a \in Addresses :
        readResponse([m |-> "ConnectionStatusEvent", flags |-> f, address |-> a])
    /\ connected_' = TRUE
    /\ active' = {connection}
    /\ peer' = address
    /\ opened' = opened \cup {connection}
    /\ Return
    /\ UNCHANGED <<connection, address_, event_queue, history, locals, op,
                   result, pending, entry>>
    /\ UNCHANGED scratch

\* (void)readResponse<ConnectionStatusEvent>(); connected_ = true;
\* address_ = address;
ConnectDirectEvent ==
    /\ pc = "connect_direct_event"
    /\ \E f \in StatusFlags, a \in Addresses :
        readResponse([m |-> "ConnectionStatusEvent", flags |-> f, address |-> a])
    /\ connected_' = TRUE
    /\ address_' = address
    /\ active' = {connection}
    /\ peer' = address
    /\ opened' = opened \cup {connection}
    /\ Return
    /\ UNCHANGED <<connection, event_queue, history, locals, op, result>>
    /\ UNCHANGED <<pending, entry>>
    /\ UNCHANGED scratch

\* -------------------------------------------------------------- disconnect
\* Variant of AwaitsDisconnected that does not look at connected_.
AwaitsActiveSlot(s) == connection = s

\* The test of disconnect: the slot is the active connected slot.
AwaitsDisconnected(s) == connected_ /\ connection = s

\* disconnect(connection) is called.
Disconnect ==
    \E s \in Slots :
        /\ Enter("disconnect", "disconnect_write")
        /\ slot' = s
        /\ all' = FALSE
        /\ i' = 0 /\ address' = AddrA /\ handle' = 0 /\ payload' = <<>>
        /\ idx' = 0 /\ running' = FALSE
        /\ UNCHANGED <<members, history>>

\* disconnect() is called: disconnect(connection).
DisconnectActive ==
    /\ Enter("disconnect()", "disconnect_write")
    /\ slot' = connection
    /\ all' = FALSE
    /\ i' = 0 /\ address' = AddrA /\ handle' = 0 /\ payload' = <<>>
    /\ idx' = 0 /\ running' = FALSE
    /\ UNCHANGED <<members, history>>

\* disconnectAll() is called: the loop starts with disconnect(0).
DisconnectAll ==
    /\ Enter("disconnectAll", "disconnect_write")
    /\ i' = 0
    /\ slot' = 0
    /\ all' = TRUE
    /\ address' = AddrA /\ handle' = 0 /\ payload' = <<>>
    /\ idx' = 0 /\ running' = FALSE
    /\ UNCHANGED <<members, history>>

\* disconnect(slot) returns: to the caller, or to the loop of disconnectAll,
\* which calls disconnect(i + 1) or returns.
DisconnectReturns ==
    IF all /\ i + 1 < NumSlots
    THEN /\ i' = i + 1
         /\ slot' = i + 1
         /\ pc' = "disconnect_write"
         /\ ret' = ret
    ELSE /\ i' = i
         /\ slot' = slot
         /\ Return

\* client.write(ConnectionDisconnect{connection})
DisconnectWrite ==
    /\ pc = "disconnect_write"
    /\ trace' = Append(trace, Wr([m |-> "ConnectionDisconnect", connection |-> slot]))
    /\ pc' = "disconnect_response"
    /\ UNCHANGED <<members, history, locals, op, ret, result>>
    /\ UNCHANGED observed
    /\ UNCHANGED scratch

\* (void)readResponse<ConnectionDisconnectResponse>(), then the test
\* connected_ && this->connection == connection.
DisconnectResponse ==
    /\ pc = "disconnect_response"
    /\ readResponse([m |-> "ConnectionDisconnectResponse"])
    /\ active' = active \ {slot}
    /\ opened' = opened \ {slot}
    /\ IF AwaitsDisconnected(slot)
       THEN /\ pc' = "disconnect_event"
            /\ UNCHANGED <<i, slot, ret>>
       ELSE DisconnectReturns
    /\ UNCHANGED <<members, history, op, result, address, all, handle, payload,
                   idx, running>>
    /\ UNCHANGED <<pending, entry, peer>>
    /\ UNCHANGED scratch

\* (void)readResponse<ConnectionDisconnectedEvent>(); connected_ = false;
DisconnectEvent ==
    /\ pc = "disconnect_event"
    /\ readResponse([m |-> "ConnectionDisconnectedEvent"])
    /\ connected_' = FALSE
    /\ DisconnectReturns
    /\ UNCHANGED <<connection, address_, event_queue, history, op, result,
                   address, all, handle, payload, idx, running>>
    /\ UNCHANGED observed
    /\ UNCHANGED scratch

\* ---------------------------------------------------------- writeAttribute
\* writeAttribute(handle, payload) is called.
WriteAttribute ==
    \E h \in Handles, p \in Payloads \cup {LongPayload} :
        /\ Enter("writeAttribute", "write_command")
        /\ handle' = h
        /\ payload' = p
        /\ i' = 0 /\ slot' = 0 /\ all' = FALSE /\ address' = AddrA
        /\ idx' = 0 /\ running' = FALSE
        /\ UNCHANGED <<members, history>>

\* client.write(AttclientAttributeWrite<0>{connection, handle,
\*              static_cast<std::uint8_t>(payload.size())}, payload)
WriteCommand ==
    /\ pc = "write_command"
    /\ trace' = Append(trace, Wr([m |-> "AttclientAttributeWrite",
                                  connection |-> connection,
                                  atthandle |-> handle,
                                  length |-> Uint8(Len(payload)),
                                  payload |-> payload]))
    /\ pc' = "write_response"
    /\ UNCHANGED <<members, history, locals, op, ret, result>>
    /\ UNCHANGED observed
    /\ UNCHANGED scratch

\* Variant of WriteResponse that returns after the acknowledgment.
WriteResponseReturns ==
    /\ pc = "write_response"
    /\ readResponse([m |-> "AttclientAttributeWriteResponse"])
    /\ Return
    /\ UNCHANGED <<members, history, locals, op, result, observed>>
    /\ UNCHANGED scratch

\* (void)readResponse<AttclientAttributeWriteResponse>()
WriteResponse ==
    /\ pc = "write_response"
    /\ readResponse([m |-> "AttclientAttributeWriteResponse"])
    /\ pc' = "write_completed"
    /\ UNCHANGED <<members, history, locals, op, ret, result>>
    /\ UNCHANGED observed
    /\ UNCHANGED scratch

\* (void)readResponse<AttclientProcedureCompletedEvent>()
WriteCompleted ==
    /\ pc = "write_completed"
    /\ readResponse([m |-> "AttclientProcedureCompletedEvent"])
    /\ Return
    /\ UNCHANGED <<members, history, locals, op, result>>
    /\ UNCHANGED observed
    /\ UNCHANGED scratch

\* ----------------------------------------------------------- readAttribute
\* Variant of Unsolicited that takes no event for the answer.
UnsolicitedAlways(metadata, h) == TRUE

\* Variant of Unsolicited with the comparison inverted.
UnsolicitedInverted(metadata, h) == metadata.atthandle = h

\* metadata.atthandle != handle: the event is not the answer to the read.
Unsolicited(metadata, h) == metadata.atthandle # h

\* metadata.length != data.size(): the declared length is wrong.
LengthMismatch(metadata, data) == metadata.length # Len(data)

\* Variant of EmplaceBack that puts the event in front.
EmplaceFront(queue, event) == <<event>> \o queue

\* event_queue.emplace_back(Event{handle, std::move(data)})
EmplaceBack(queue, event) == Append(queue, event)

\* readAttribute(handle) is called.
ReadAttribute ==
    \E h \in Handles :
        /\ Enter("readAttribute", "read_command")
        /\ handle' = h
        /\ payload' = <<>> /\ i' = 0 /\ slot' = 0 /\ all' = FALSE
        /\ address' = AddrA /\ idx' = 0 /\ running' = FALSE
        /\ UNCHANGED <<members, history>>

\* client.write(AttclientReadByHandle{connection, handle})
ReadCommand ==
    /\ pc = "read_command"
    /\ trace' = Append(trace, Wr([m |-> "AttclientReadByHandle",
                                  connection |-> connection,
                                  atthandle |-> handle]))
    /\ pc' = "read_response"
    /\ UNCHANGED <<members, history, locals, op, ret, result>>
    /\ UNCHANGED observed
    /\ UNCHANGED scratch

\* (void)readResponse<AttclientReadByHandleResponse>()
ReadResponse ==
    /\ pc = "read_response"
    /\ readResponse([m |-> "AttclientReadByHandleResponse"])
    /\ pc' = "read_value"
    /\ UNCHANGED <<members, history, locals, op, ret, result>>
    /\ UNCHANGED observed
    /\ UNCHANGED scratch

\* retry: metadata = client.read<AttclientAttributeValueEvent<0>>(data), then
\* buffer the event and retry, or throw on a wrong length, or return data.
\* The read stores the event's payload in data, also after data was moved
\* into the buffer.  The buffered event carries the serial number of its
\* arrival as id.
ReadValue ==
    /\ pc = "read_value"
    /\ \E h \in Handles, n \in 0 .. MaxLen, data \in Payloads :
        LET metadata == [m |-> "AttclientAttributeValueEvent",
                         atthandle |-> h, length |-> n, data |-> data]
        IN  /\ trace' = Append(trace, Rd(metadata))
            /\ IF Unsolicited(metadata, handle)
               THEN /\ arrivals < MaxEvents
                    /\ arrivals' = arrivals + 1
                    /\ event_queue' = EmplaceBack(event_queue,
                            [handle |-> metadata.atthandle, data |-> data,
                             id |-> arrivals + 1])
                    /\ pending' = Append(pending,
                            [handle |-> metadata.atthandle, data |-> data,
                             id |-> arrivals + 1])
                    /\ UNCHANGED <<pc, ret, result>>
               ELSE /\ UNCHANGED <<arrivals, event_queue, pending>>
                    /\ IF LengthMismatch(metadata, data)
                       THEN Throw /\ result' = result
                       ELSE Return /\ result' = <<data>>
    /\ UNCHANGED <<connected_, connection, address_, delivered, duplicated,
                   locals, op>>
    /\ UNCHANGED <<active, entry, peer, opened>>
    /\ UNCHANGED scratch

\* The transport delivers an attribute-value event with the handle asked
\* for: the retry loop ends, with the payload or with the length error.
Arrives == ReadValue /\ pc' = "idle"

\* ------------------------------------------------------------------ listen

\* Variant of Clear that leaves the buffer as it is.
ClearNothing(queue) == queue

\* The range-for of listen is over: event_queue.clear().
Clear(queue) == <<>>

\* listen(callback) is called; with an empty buffer the range-for and the
\* clear() are over at once.
Listen ==
    /\ Enter("listen", IF event_queue = <<>> THEN "listen_read" ELSE "listen_replay")
    /\ idx' = 1
    /\ event_queue' = IF event_queue = <<>> THEN Clear(event_queue) ELSE event_queue
    /\ handle' = 0 /\ payload' = <<>> /\ i' = 0 /\ slot' = 0 /\ all' = FALSE
    /\ address' = AddrA /\ running' = FALSE
    /\ UNCHANGED <<connected_, connection, address_, history>>

\* callback(std::get<0>(event), std::get<1>(event)) for the event at idx.
\* The callback returns, and after the last event the buffer is cleared, or
\* it throws, and listen is left with the buffer as it is.  An event counts
\* as delivered once the callback that got it has returned.
ListenReplay ==
    /\ pc = "listen_replay"
    /\ LET event == event_queue[idx]
       IN  /\ trace' = Append(trace, Cb([handle |-> event.handle,
                                         data |-> event.data, id |-> event.id]))
           /\ \E throws \in BOOLEAN :
                IF throws
                THEN /\ Throw
                     /\ UNCHANGED <<event_queue, idx, delivered, duplicated>>
                ELSE /\ delivered' = delivered \cup {event.id}
                     /\ duplicated' = duplicated \cup ({event.id} \cap delivered)
                     /\ idx' = idx + 1
                     /\ ret' = ret
                     /\ IF idx + 1 <= Len(event_queue)
                        THEN UNCHANGED <<pc, event_queue>>
                        ELSE /\ event_queue' = Clear(event_queue)
                             /\ pc' = "listen_read"
    /\ UNCHANGED <<connected_, connection, address_, arrivals, op, result,
                   address, slot, all, handle, payload, i, running>>
    /\ UNCHANGED observed
    /\ UNCHANGED scratch

\* client.read([&callback](AttclientAttributeValueEvent<0> metadata,
\* Buffer data) { callback(metadata.atthandle, std::move(data)); })
ListenRead ==
    /\ pc = "listen_read"
    /\ \E h \in Handles, n \in 0 .. MaxLen, data \in Payloads :
        LET metadata == [m |-> "AttclientAttributeValueEvent",
                         atthandle |-> h, length |-> n, data |-> data]
        IN  trace' = trace \o <<Rd(metadata),
                                Cb([handle |-> metadata.atthandle,
                                    data |-> data, id |-> 0])>>
    /\ \E throws \in BOOLEAN : IF throws THEN Throw ELSE Return
    /\ UNCHANGED <<members, history, locals, op, result>>
    /\ UNCHANGED observed
    /\ UNCHANGED scratch

\* ---------------------------------------------------------------- discover
\* Variant of KeepsRunning that ignores the callback's answer.
KeepsRunningAlways(flag, answer) == flag

\* if (!callback(...)) running = false
KeepsRunning(flag, answer) == IF ~answer THEN FALSE ELSE flag

\* discover(callback) is called.
Discover ==
    /\ Enter("discover", "discover_write")
    /\ running' = FALSE
    /\ handle' = 0 /\ payload' = <<>> /\ i' = 0 /\ slot' = 0 /\ all' = FALSE
    /\ address' = AddrA /\ idx' = 0
    /\ UNCHANGED <<members, history>>

\* client.write(GapDiscover{DiscoverGeneric}); bool running = true;
DiscoverWrite ==
    /\ pc = "discover_write"
    /\ trace' = Append(trace, Wr([m |-> "GapDiscover"]))
    /\ running' = TRUE
    /\ pc' = "discover_read"
    /\ UNCHANGED <<members, history, op, ret, result, address, slot, all,
                   handle, payload, i, idx>>
    /\ UNCHANGED observed
    /\ UNCHANGED scratch

\* Messages the scan loop has read so far.
ScanReads == Cardinality(Positions(LAMBDA e : e.k = "read"))

\* while (running) client.read(discover_response, discover_event): the
\* message is a GapDiscoverResponse, which does nothing, or a scan response,
\* which is handed to the callback; the callback answers or throws.
DiscoverRead ==
    /\ pc = "discover_read"
    /\ ScanReads < MaxScan
    /\ \/ /\ trace' = Append(trace, Rd([m |-> "GapDiscoverResponse"]))
          /\ UNCHANGED <<running, pc, ret>>
       \/ \E a \in Addresses, answer \in {"true", "false", "throw"} :
            /\ trace' = trace \o <<Rd([m |-> "GapScanResponseEvent", sender |-> a]),
                                   Cb([address |-> a, answer |-> answer])>>
            /\ IF answer = "throw"
               THEN Throw /\ UNCHANGED running
               ELSE /\ running' = KeepsRunning(running, answer = "true")
                    /\ pc' = IF running' THEN "discover_read" ELSE "discover_end"
                    /\ ret' = ret
    /\ UNCHANGED <<members, history, op, result, address, slot, all, handle,
                   payload, i, idx>>
    /\ UNCHANGED observed
    /\ UNCHANGED scratch

\* client.write(GapEndProcedure{})
DiscoverEnd ==
    /\ pc = "discover_end"
    /\ trace' = Append(trace, Wr([m |-> "GapEndProcedure"]))
    /\ pc' = "discover_end_response"
    /\ UNCHANGED <<members, history, locals, op, ret, result>>
    /\ UNCHANGED observed
    /\ UNCHANGED scratch

\* (void)client.read<GapEndProcedureResponse>()
DiscoverEndResponse ==
    /\ pc = "discover_end_response"
    /\ trace' = Append(trace, Rd([m |-> "GapEndProcedureResponse"]))
    /\ Return
    /\ UNCHANGED <<members, history, locals, op, result>>
    /\ UNCHANGED observed
    /\ UNCHANGED scratch

\* --------------------------------------------------------- characteristics
\* Variant of Insert that keeps the handle a uuid already has.
InsertIfAbsent(map, uuid, h) ==
    IF uuid \in DOMAIN map
    THEN map
    ELSE [u \in DOMAIN map \cup {uuid} |-> IF u = uuid THEN h ELSE map[u]]

\* chr[uuid] = event.chrhandle
Insert(map, uuid, h) ==
    [u \in DOMAIN map \cup {uuid} |-> IF u = uuid THEN h ELSE map[u]]

\* event.length != uuid.size(): the declared length is wrong.
UuidMismatch(event, uuid) == event.length # Len(uuid)

\* characteristics() is called; Characteristics chr is empty.
Characteristics ==
    /\ Enter("characteristics", "characteristics_find")
    /\ running' = FALSE
    /\ handle' = 0 /\ payload' = <<>> /\ i' = 0 /\ slot' = 0 /\ all' = FALSE
    /\ address' = AddrA /\ idx' = 0
    /\ UNCHANGED <<members, history>>

\* Variant of CharacteristicsFind that enumerates the first slot and makes it
\* the active one.
CharacteristicsFindFirstSlot ==
    /\ pc = "characteristics_find"
    /\ trace' = Append(trace, Wr([m |-> "AttclientFindInformation",
                                  connection |-> 0,
                                  start |-> 1, end |-> 65535]))
    /\ pc' = "characteristics_response"
    /\ connection' = 0
    /\ UNCHANGED <<connected_, address_, event_queue, history, locals, op,
                   ret, result, observed, scratch>>

\* client.write(AttclientFindInformation{connection, 0x0001, 0xFFFF})
CharacteristicsFind ==
    /\ pc = "characteristics_find"
    /\ trace' = Append(trace, Wr([m |-> "AttclientFindInformation",
                                  connection |-> connection,
                                  start |-> 1, end |-> 65535]))
    /\ pc' = "characteristics_response"
    /\ UNCHANGED <<members, history, locals, op, ret, result, observed, scratch>>

\* (void)client.read<AttclientFindInformationResponse>(); bool running = true;
CharacteristicsResponse ==
    /\ pc = "characteristics_response"
    /\ trace' = Append(trace, Rd([m |-> "AttclientFindInformationResponse"]))
    /\ running' = TRUE
    /\ pc' = "characteristics_read"
    /\ UNCHANGED <<members, history, op, ret, result, address, slot, all,
                   handle, payload, i, idx, observed, scratch>>

\* The information-found events the call has read.
InfoReads ==
    Cardinality(Positions(LAMBDA e : IsRead(e, "AttclientFindInformationFoundEvent")))

\* while (running) client.read(information_found, procedure_completed): an
\* information-found event is checked and stored in chr, or makes the call
\* throw; a procedure-completed event ends the loop and chr is returned.
CharacteristicsRead ==
    /\ pc = "characteristics_read"
    /\ \/ /\ InfoReads < MaxInfo
          /\ \E h \in Handles, n \in UuidLengths, uuid \in Uuids :
                LET event == [m |-> "AttclientFindInformationFoundEvent",
                              chrhandle |-> h, length |-> n, uuid |-> uuid]
                IN  /\ trace' = Append(trace, Rd(event))
                    /\ IF UuidMismatch(event, uuid)
                       THEN Throw /\ UNCHANGED <<chr, running>>
                       ELSE /\ chr' = Insert(chr, uuid, event.chrhandle)
                            /\ UNCHANGED <<pc, ret, running>>
       \/ /\ trace' = Append(trace, Rd([m |-> "AttclientProcedureCompletedEvent"]))
          /\ running' = FALSE
          /\ Return
          /\ chr' = chr
    /\ UNCHANGED <<members, history, op, result, address, slot, all, handle,
                   payload, i, idx, observed, ss>>

\* ------------------------------------------------------------ address text
\* A text is a sequence of characters.  The digits operator<< writes in
\* std::hex (lowercase) and the ones operator>> also reads.
HexDigits == <<"0", "1", "2", "3", "4", "5", "6", "7", "8", "9",
               "a", "b", "c", "d", "e", "f">>
UpperDigits == <<"A", "B", "C", "D", "E", "F">>
Whitespace == {" ", "\n"}

\* std::cout << std::hex << value
RECURSIVE Hex(_)
Hex(n) ==
    IF n < 16 THEN <<HexDigits[n + 1]>>
    ELSE Hex(n \div 16) \o <<HexDigits[(n % 16) + 1]>>

\* std::setw(w): shorter output is padded on the left with the fill
\* character, which print_address leaves at the stream's default, a space.
RECURSIVE SetW(_, _)
SetW(w, text) == IF Len(text) >= w THEN text ELSE SetW(w, <<" ">> \o text)

\* print_address: the loop from address[i] on (i counts the bytes left, so
\* the byte printed is the C++ address[i - 1]), then std::endl.
RECURSIVE PrintFrom(_, _)
PrintFrom(addr, n) ==
    IF n = 0 THEN <<"\n">>
    ELSE SetW(2, Hex(addr[n])) \o (IF n # 1 THEN <<":">> ELSE <<>>)
         \o PrintFrom(addr, n - 1)

print_address(addr) == PrintFrom(addr, Len(addr))

\* Formatted input skips leading whitespace (std::skipws is set).
RECURSIVE SkipWs(_, _)
SkipWs(str, pos) ==
    IF pos <= Len(str) /\ str[pos] \in Whitespace
    THEN SkipWs(str, pos + 1) ELSE pos

IsHexDigit(ch) ==
    \/ \E d \in DOMAIN HexDigits : HexDigits[d] = ch
    \/ \E d \in DOMAIN UpperDigits : UpperDigits[d] = ch

DigitValue(ch) ==
    IF \E d \in DOMAIN HexDigits : HexDigits[d] = ch
    THEN (CHOOSE d \in DOMAIN HexDigits : HexDigits[d] = ch) - 1
    ELSE (CHOOSE d \in DOMAIN UpperDigits : UpperDigits[d] = ch) + 9

\* The end of the run of hexadecimal digits that starts at pos.
RECURSIVE DigitsEnd(_, _)
DigitsEnd(str, pos) ==
    IF pos <= Len(str) /\ IsHexDigit(str[pos])
    THEN DigitsEnd(str, pos + 1) ELSE pos

\* The number the digits str[from .. to - 1] denote.
RECURSIVE HexValue(_, _, _)
HexValue(str, from, to) ==
    IF from >= to THEN 0
    ELSE HexValue(str, from, to - 1) * 16 + DigitValue(str[to - 1])

\* What a variable without initialiser may hold when it is read: `int
\* value` is read as a byte, `char delimiter` is compared with ':'.
IndeterminateBytes == {0, 255}
IndeterminateChars == {":", "?"}

\* ss >> std::hex >> value.  A stream that is not good extracts nothing and
\* leaves `value` as it was, without a value; so does one that meets the
\* end while skipping whitespace.  Without a digit the value is 0 and the
\* stream fails; digits that run to the end of the text set eofbit.
ExtractInt(stream) ==
    LET str == stream.str
        from == SkipWs(str, stream.pos)
        to == DigitsEnd(str, from)
    IN  IF ~stream.good
        THEN [ss |-> stream, values |-> IndeterminateBytes]
        ELSE IF from > Len(str)
        THEN [ss |-> [stream EXCEPT !.pos = from, !.good = FALSE],
              values |-> IndeterminateBytes]
        ELSE IF to = from
        THEN [ss |-> [stream EXCEPT !.pos = from, !.good = FALSE],
              values |-> {0}]
        ELSE [ss |-> [stream EXCEPT !.pos = to, !.good = to <= Len(str)],
              values |-> {HexValue(str, from, to)}]

\* ss >> delimiter.  A stream that is not good, or that meets the end while
\* skipping whitespace, extracts nothing and leaves `delimiter` without a
\* value.
ExtractChar(stream) ==
    LET str == stream.str
        from == SkipWs(str, stream.pos)
    IN  IF ~stream.good
        THEN [ss |-> stream, chars |-> IndeterminateChars]
        ELSE IF from > Len(str)
        THEN [ss |-> [stream EXCEPT !.pos = from, !.good = FALSE],
              chars |-> IndeterminateChars]
        ELSE [ss |-> [stream EXCEPT !.pos = from + 1],
              chars |-> {str[from]}]

\* The loop of connect(string) from address[n - 1] on: the ways it can end,
\* with "Unexpected delimiter" thrown (ok is false) or with the address.
RECURSIVE ParseFrom(_, _, _)
ParseFrom(stream, n, addr) ==
    IF n = 0 THEN {[ok |-> TRUE, address |-> addr, ss |-> stream]}
    ELSE LET number == ExtractInt(stream)
             mark == ExtractChar(number.ss)
         IN  UNION {UNION {IF delimiter # ":"
                           THEN {[ok |-> FALSE,
                                  address |-> [addr EXCEPT ![n] = Uint8(value)],
                                  ss |-> mark.ss]}
                           ELSE ParseFrom(mark.ss, n - 1,
                                          [addr EXCEPT ![n] = Uint8(value)])
                           : delimiter \in mark.chars}
                    : value \in number.values}

\* Addresses whose printed form is parsed: bytes of one and of two digits.
AddrC == <<0, 16, 171, 255, 9, 10>>
Printed == {AddrA, AddrC}

\* Texts given to connect(string): the printed addresses, six groups, six
\* groups and a last colon, seven groups, five groups, a dash as separator.
Texts ==
    {print_address(a) : a \in Printed} \cup
    {<<"1", ":", "2", ":", "3", ":", "4", ":", "5", ":", "6">>,
     <<"1", ":", "2", ":", "3", ":", "4", ":", "5", ":", "6", ":">>,
     <<"1", ":", "2", ":", "3", ":", "4", ":", "5", ":", "6", ":", "7">>,
     <<"1", ":", "2", ":", "3", ":", "4", ":", "5">>,
     <<"1", "-", "2", ":", "3", ":", "4", ":", "5", ":", "6">>}

\* connect(str) is called: std::istringstream ss(str); Address address is
\* written before it is read, so its first value does not matter.
ConnectText ==
    \E str \in Texts :
        /\ EnterWith("connect(string)", "connect_parse",
                     [str |-> str, pos |-> 1, good |-> TRUE])
        /\ address' = <<0, 0, 0, 0, 0, 0>>
        /\ i' = 0
        /\ slot' = 0 /\ all' = FALSE /\ handle' = 0 /\ payload' = <<>>
        /\ idx' = 0 /\ running' = FALSE
        /\ UNCHANGED <<members, history>>

\* The parsing loop, then connect(address).
ConnectParse ==
    /\ pc = "connect_parse"
    /\ \E parsed \in ParseFrom(ss, Len(address), address) :
        /\ ss' = parsed.ss
        /\ address' = parsed.address
        /\ IF parsed.ok
           THEN pc' = "connect_get_status" /\ ret' = ret
           ELSE Throw
    /\ i' = 0
    /\ UNCHANGED <<members, history, op, result, trace, slot, all, handle,
                   payload, idx, running, observed, chr>>

\* --------------------------------------------------------------- transport
\* Control points whose next step is a call of the transport.
TransportCalls ==
    {"connect_get_status", "connect_status_response", "connect_status_event",
     "connect_direct", "connect_direct_response", "connect_direct_event",
     "disconnect_write", "disconnect_response", "disconnect_event",
     "write_command", "write_response", "write_completed",
     "read_command", "read_response", "read_value",
     "listen_read",
     "discover_write", "discover_read", "discover_end", "discover_end_response",
     "characteristics_find", "characteristics_response", "characteristics_read"}

\* The transport's read or write fails; the error leaves the running call.
TransportError ==
    /\ pc \in TransportCalls
    /\ Throw
    /\ UNCHANGED <<members, history, locals, op, result, trace>>
    /\ UNCHANGED observed
    /\ UNCHANGED scratch

\* ----------------------------------------------------------- specification
\* Calls that concern the connection: connect, disconnect, disconnectAll,
\* discover and writeAttribute.  None of them reads or writes event_queue.
NextConnection ==
    \/ Connect \/ ConnectGetStatus \/ ConnectStatusResponse
    \/ ConnectStatusEvent \/ ConnectDirect \/ ConnectDirectResponse
    \/ ConnectDirectEvent
    \/ Disconnect \/ DisconnectActive \/ DisconnectAll
    \/ DisconnectWrite \/ DisconnectResponse \/ DisconnectEvent
    \/ WriteAttribute \/ WriteCommand \/ WriteResponse \/ WriteCompleted
    \/ Discover \/ DiscoverWrite \/ DiscoverRead \/ DiscoverEnd
    \/ DiscoverEndResponse
    \/ TransportError

\* Calls that concern the event buffer: readAttribute and listen.  Of the
\* connection state they read `connection` alone, which Init leaves open.
NextAttribute ==
    \/ ReadAttribute \/ ReadCommand \/ ReadResponse \/ ReadValue
    \/ Listen \/ ListenReplay \/ ListenRead
    \/ TransportError

\* The characteristic enumeration.
NextCharacteristics ==
    \/ Characteristics \/ CharacteristicsFind \/ CharacteristicsResponse
    \/ CharacteristicsRead
    \/ TransportError

\* The calls that are neither connect nor disconnect.
NextFrame ==
    \/ Discover \/ DiscoverWrite \/ DiscoverRead \/ DiscoverEnd
    \/ DiscoverEndResponse
    \/ WriteAttribute \/ WriteCommand \/ WriteResponse \/ WriteCompleted
    \/ NextAttribute
    \/ NextCharacteristics

\* connect(string) on a transport that does not fail.
NextCodec ==
    \/ ConnectText \/ ConnectParse
    \/ ConnectGetStatus \/ ConnectStatusResponse \/ ConnectStatusEvent
    \/ ConnectDirect \/ ConnectDirectResponse \/ ConnectDirectEvent

\* readAttribute on a transport that does not fail.
NextRead == ReadAttribute \/ ReadCommand \/ ReadResponse \/ ReadValue

Next == NextConnection \/ NextAttribute \/ NextCharacteristics \/ NextCodec

SpecConnection == Init /\ [][NextConnection]_vars
SpecAttribute == Init /\ [][NextAttribute]_vars
SpecCharacteristics == Init /\ [][NextCharacteristics]_vars
SpecFrame == Init /\ [][NextFrame]_vars
SpecCodec == Init /\ [][NextCodec]_vars
\* readAttribute blocks in client.read until the transport delivers; the
\* event asked for is delivered in the end.
SpecRead == Init /\ [][NextRead]_vars /\ WF_vars(Arrives)
Spec == Init /\ [][Next]_vars

\* ------------------------------------------------------------------ claims
\* Ids of the events the buffer holds.
Buffered == {event_queue[n].id : n \in 1 .. Len(event_queue)}

\* The callbacks of the trace, in order.
Callbacks == SelectSeq(trace, IsCallback)

\* C1: exactly-once delivery.  Every event readAttribute appended to the
\* buffer is passed to a listen callback exactly once: an event a callback
\* has taken is never passed again by a later listen, and an event leaves
\* the buffer only after a callback took it - also when a call or a
\* callback ends with an error.
C1_ExactlyOnce ==
    /\ duplicated = {}
    /\ \A id \in 1 .. arrivals : id \in Buffered \/ id \in delivered

\* What a listen callback got, as the buffer holds it.
Got(e) == [handle |-> e.handle, data |-> e.data, id |-> e.id]

\* The callbacks of the trace that got an event of `pending`, in order.
Replayed ==
    LET ids == {pending[n].id : n \in 1 .. Len(pending)}
        cbs == SelectSeq(Callbacks, LAMBDA e : e.id \in ids)
    IN  [n \in 1 .. Len(cbs) |-> Got(cbs[n])]

\* C2: FIFO replay.  The events e1 .. en that readAttribute calls buffered
\* since the last listen are passed to the callback of the next listen in
\* arrival order, handle and payload as they arrived, and all of them
\* before the callback gets the live event.
C2_FifoReplay ==
    op = "listen" =>
        /\ Len(Replayed) <= Len(pending)
        /\ Replayed = SubSeq(pending, 1, Len(Replayed))
        /\ \A n \in 1 .. Len(trace) :
            (IsCallback(trace[n]) /\ trace[n].id = 0) =>
                /\ Replayed = pending
                /\ n = Len(trace)
        /\ (pc = "idle" /\ ret = "ok") =>
                /\ Replayed = pending
                /\ IsCallback(trace[Len(trace)])
                /\ trace[Len(trace)].id = 0

\* C2, its case: a listen has returned after replaying two buffered events
\* that differ in handle and payload.
C2_Witness ==
    /\ op = "listen" /\ pc = "idle" /\ ret = "ok"
    /\ Len(pending) = 2
    /\ pending[1].handle # pending[2].handle
    /\ pending[1].data # pending[2].data
    /\ Len(trace) = 4

\* The attribute-value events the call has read, in order.
ValueEvents ==
    SelectSeq(trace, LAMBDA e : IsRead(e, "AttclientAttributeValueEvent"))

\* C3: readAttribute(h) ends at the first attribute-value event whose
\* handle is h.  It returns that event's payload, and only if the declared
\* length is the payload's length; if the length differs it fails and
\* returns no data.  No event with another handle is returned.
C3_ReadResult ==
    op = "readAttribute" =>
        LET n == Len(ValueEvents)
            last == ValueEvents[n]
        IN  /\ n >= 1 =>
                /\ IsWrite(trace[1], "AttclientReadByHandle")
                /\ trace[1].atthandle = handle
                /\ IsRead(trace[2], "AttclientReadByHandleResponse")
            /\ \A k \in 1 .. (n - 1) : ValueEvents[k].atthandle # handle
            /\ pc # "idle" =>
                /\ result = <<>>
                /\ \A k \in 1 .. n : ValueEvents[k].atthandle # handle
            /\ (pc = "idle" /\ ret = "ok") =>
                /\ n >= 1
                /\ last.atthandle = handle
                /\ last.length = Len(last.data)
                /\ result = <<last.data>>
            /\ (pc = "idle" /\ ret = "error") => result = <<>>
            /\ (pc = "idle" /\ n >= 1 /\ last.atthandle = handle
                           /\ last.length # Len(last.data)) => ret = "error"

\* C3, its case: readAttribute has returned a payload after an event with
\* another handle.
C3_Witness ==
    /\ op = "readAttribute" /\ pc = "idle" /\ ret = "ok"
    /\ Len(ValueEvents) = 2
    /\ result = <<<<1>>>>

\* Position n holds the status event that answers a ConnectionGetStatus.
QueryStatus(n) ==
    /\ n >= 3
    /\ IsRead(trace[n], "ConnectionStatusEvent")
    /\ IsWrite(trace[n - 2], "ConnectionGetStatus")

\* The status event at n reports Connected with the address connect wants.
ReportsPeer(n) ==
    /\ "Connected" \in trace[n].flags
    /\ trace[n].address = address

\* Positions 1 .. 3 * n of the trace are the status queries of slots
\* 0 .. n - 1, each a command, its response and its status event.
Queried(n) ==
    /\ Len(trace) >= 3 * n
    /\ \A j \in 0 .. (n - 1) :
        /\ IsWrite(trace[3 * j + 1], "ConnectionGetStatus")
        /\ trace[3 * j + 1].connection = j
        /\ IsRead(trace[3 * j + 2], "ConnectionGetStatusResponse")
        /\ QueryStatus(3 * j + 3)

DirectConnects == Positions(LAMBDA e : IsWrite(e, "GapConnectDirect"))

\* C4: slot revival.  When a queried slot reports Connected with the
\* requested address, connect adopts that slot and returns: the slots
\* queried are 0 up to that slot, in order, nothing is queried after it and
\* no direct-connect command is issued.
C4_SlotRevival ==
    op = "connect" =>
        \A n \in 1 .. Len(trace) :
            (QueryStatus(n) /\ ReportsPeer(n)) =>
                /\ n = Len(trace)
                /\ pc = "idle" /\ ret = "ok"
                /\ connection = trace[n - 2].connection
                /\ n = 3 * (connection + 1)
                /\ Queried(connection + 1)
                /\ DirectConnects = {}

\* C4, its case: slot 0 did not match, slot 1 reports the requested peer and
\* connect has returned.
C4_Witness ==
    /\ op = "connect" /\ pc = "idle" /\ ret = "ok"
    /\ Len(trace) = 6
    /\ QueryStatus(6) /\ ReportsPeer(6)
    /\ "Connected" \in trace[3].flags
    /\ entry.connection # 1

\* C5: after a connect(address) that returned normally, by slot revival or
\* by a fresh connect, connected() is true and address() is the requested
\* address.
C5_ConnectedAfterConnect ==
    (op = "connect" /\ pc = "idle" /\ ret = "ok") =>
        /\ connected_
        /\ address_ = address

\* C6: fresh connect.  The direct-connect command is issued once, after the
\* status queries of slots 0, 1, 2 of which none reported the requested
\* peer; then the connect response and then the status event are read, and
\* on return the active slot is the handle of the connect response,
\* connected is true and the peer address is the requested one.
C6_FreshConnect ==
    op = "connect" =>
        /\ \A n \in DirectConnects :
            /\ n = 3 * NumSlots + 1
            /\ trace[n].address = address
            /\ Queried(NumSlots)
            /\ \A j \in 1 .. NumSlots : ~ReportsPeer(3 * j)
        /\ (Queried(NumSlots) /\ Len(trace) = 3 * NumSlots
                /\ \A j \in 1 .. NumSlots : ~ReportsPeer(3 * j)) =>
            \/ pc = "connect_direct"
            \/ pc = "idle" /\ ret = "error"
        /\ (pc = "idle" /\ ret = "ok"
                /\ ~(QueryStatus(Len(trace)) /\ ReportsPeer(Len(trace)))) =>
            /\ Len(trace) = 3 * NumSlots + 3
            /\ DirectConnects = {3 * NumSlots + 1}
            /\ IsRead(trace[3 * NumSlots + 2], "GapConnectDirectResponse")
            /\ IsRead(trace[3 * NumSlots + 3], "ConnectionStatusEvent")
            /\ connection = trace[3 * NumSlots + 2].connection_handle
            /\ connected_
            /\ address_ = address

\* C6, its case: a fresh connect has returned with a new slot and a new
\* peer address.
C6_Witness ==
    /\ op = "connect" /\ pc = "idle" /\ ret = "ok"
    /\ DirectConnects # {}
    /\ ~entry.connected_
    /\ connection = 2 /\ entry.connection # 2
    /\ address_ # entry.address_

\* The trace of disconnect(slot): the command, its acknowledgment and, when
\* awaited, the disconnected event.
DisconnectTrace(s, awaited) ==
    <<Wr([m |-> "ConnectionDisconnect", connection |-> s]),
      Rd([m |-> "ConnectionDisconnectResponse"])>>
    \o (IF awaited THEN <<Rd([m |-> "ConnectionDisconnectedEvent"])>> ELSE <<>>)

\* C7: disconnect(slot) issues one disconnect command for slot and awaits
\* its acknowledgment.  It awaits the disconnected event and clears
\* connected iff connected was true and slot was the active slot; else it
\* reads no disconnected event and leaves connected, the active slot and
\* the peer address as they were.
C7_Disconnect ==
    op \in {"disconnect", "disconnect()"} =>
        LET awaited == entry.connected_ /\ entry.connection = slot
            full == DisconnectTrace(slot, awaited)
        IN  /\ Len(trace) <= Len(full)
            /\ trace = SubSeq(full, 1, Len(trace))
            /\ connection = entry.connection
            /\ address_ = entry.address_
            /\ ~awaited => connected_ = entry.connected_
            /\ connected_ # entry.connected_ => trace = full
            /\ (pc = "idle" /\ ret = "ok") =>
                /\ trace = full
                /\ connected_ = (entry.connected_ /\ ~awaited)
            /\ op = "disconnect()" => slot = entry.connection

\* C7, its case: disconnect of the active connected slot has returned.
C7_Witness ==
    /\ op = "disconnect" /\ pc = "idle" /\ ret = "ok"
    /\ entry.connected_ /\ entry.connection = slot
    /\ Len(trace) = 3
    /\ ~connected_

\* The slots whose disconnected event the call has read: the event follows
\* the command for the slot and its acknowledgment.
AwaitedSlots ==
    {trace[n - 2].connection :
        n \in Positions(LAMBDA e : IsRead(e, "ConnectionDisconnectedEvent"))}

\* C8: disconnectAll issues three disconnect commands, for slots 0, 1, 2 in
\* this order, and awaits the disconnected event of the slot that was the
\* active connection when the call began - be it opened by a fresh connect
\* or adopted by slot revival - and of no other slot.
C8_DisconnectAll ==
    (op = "disconnectAll" /\ pc = "idle" /\ ret = "ok") =>
        /\ SelectSeq(trace, LAMBDA e : e.k = "write")
            = [j \in 1 .. NumSlots |->
                Wr([m |-> "ConnectionDisconnect", connection |-> j - 1])]
        /\ AwaitedSlots = entry.active

\* The callbacks that answered false / the end-procedure commands.
Refusals == Positions(LAMBDA e : IsCallback(e) /\ e.answer = "false")
EndProcedures == Positions(LAMBDA e : IsWrite(e, "GapEndProcedure"))

\* C9: in a discover call, once onDevice has returned false there is no
\* further callback and no further read of the scan loop; the end-procedure
\* command is issued once, after the last callback and after the
\* start-discovery command, and its acknowledgment is read before discover
\* returns.
C9_Discover ==
    op = "discover" =>
        /\ trace # <<>> => IsWrite(trace[1], "GapDiscover")
        /\ \A n \in Refusals :
            /\ Len(trace) <= n + 2
            /\ Len(trace) >= n + 1 => IsWrite(trace[n + 1], "GapEndProcedure")
            /\ Len(trace) >= n + 2 => IsRead(trace[n + 2], "GapEndProcedureResponse")
            /\ pc \in {"discover_end", "discover_end_response", "idle"}
        /\ Cardinality(EndProcedures) <= 1
        /\ \A n \in EndProcedures : n - 1 \in Refusals
        /\ (pc = "idle" /\ ret = "ok") =>
            /\ Cardinality(EndProcedures) = 1
            /\ IsRead(trace[Len(trace)], "GapEndProcedureResponse")
            /\ Len(trace) - 1 \in EndProcedures

\* C9, its case: discover has returned after a callback that answered true
\* and one that answered false.
C9_Witness ==
    /\ op = "discover" /\ pc = "idle" /\ ret = "ok"
    /\ Len(Callbacks) = 2
    /\ Callbacks[1].answer = "true"

\* C10: writeAttribute issues one attribute-write command, addressed to the
\* active slot, then reads the write acknowledgment and then the
\* procedure-completed event, and returns only after both.
C10_WriteAttribute ==
    op = "writeAttribute" =>
        /\ Len(trace) <= 3
        /\ Len(trace) >= 1 =>
            /\ IsWrite(trace[1], "AttclientAttributeWrite")
            /\ trace[1].connection = connection
            /\ trace[1].atthandle = handle
            /\ trace[1].payload = payload
        /\ Len(trace) >= 2 => IsRead(trace[2], "AttclientAttributeWriteResponse")
        /\ Len(trace) >= 3 => IsRead(trace[3], "AttclientProcedureCompletedEvent")
        /\ (pc = "idle" /\ ret = "ok") => Len(trace) = 3

\* C10, its case: a write to the slot a fresh connect opened has returned.
C10_Witness ==
    /\ op = "writeAttribute" /\ pc = "idle" /\ ret = "ok"
    /\ connected_ /\ connection = 2
    /\ payload # <<>>

\* The reads of an attribute-value event in the trace.
ValueReads == Positions(LAMBDA e : IsRead(e, "AttclientAttributeValueEvent"))

\* C11: a listen call, after draining the buffer, reads one live
\* attribute-value event and invokes the callback once for it; when it
\* returns normally the buffer is empty, and a listen entered with k
\* buffered events has made k + 1 callback invocations.
C11_ListenOnce ==
    op = "listen" =>
        /\ Cardinality(ValueReads) <= 1
        /\ \A n \in ValueReads :
            /\ n = entry.queued + 1
            /\ Len(trace) = n + 1
            /\ IsCallback(trace[n + 1])
            /\ trace[n + 1].handle = trace[n].atthandle
            /\ trace[n + 1].data = trace[n].data
            /\ event_queue = <<>>
        /\ Len(Callbacks) <= entry.queued + 1
        /\ (pc = "idle" /\ ret = "ok") =>
            /\ Cardinality(ValueReads) = 1
            /\ Len(Callbacks) = entry.queued + 1
            /\ event_queue = <<>>

\* C11, its case: a listen entered with two buffered events has returned.
C11_Witness ==
    /\ op = "listen" /\ pc = "idle" /\ ret = "ok"
    /\ entry.queued = 2
    /\ Len(Callbacks) = 3

\* The information-found events the call has read, in order, and the
\* positions of the procedure-completed events.
InfoFound ==
    SelectSeq(trace, LAMBDA e : IsRead(e, "AttclientFindInformationFoundEvent"))
Completions ==
    Positions(LAMBDA e : IsRead(e, "AttclientProcedureCompletedEvent"))

\* C12: characteristics returns, for the information-found events read
\* before the first procedure-completed event, the map whose keys are the
\* UUIDs seen and whose value for a UUID is the handle of the last event
\* with that UUID; the loop stops at the first procedure-completed event,
\* and an event whose declared length is not the UUID's size makes the
\* call fail instead.
C12_Characteristics ==
    op = "characteristics" =>
        LET n == Len(InfoFound)
            seen == {InfoFound[k].uuid : k \in 1 .. n}
            lastOf(u) == CHOOSE k \in 1 .. n :
                            /\ InfoFound[k].uuid = u
                            /\ \A j \in (k + 1) .. n : InfoFound[j].uuid # u
        IN  /\ Len(trace) >= 1 =>
                /\ IsWrite(trace[1], "AttclientFindInformation")
                /\ trace[1].connection = connection
            /\ Len(trace) >= 2 =>
                IsRead(trace[2], "AttclientFindInformationResponse")
            /\ \A k \in Completions :
                k = Len(trace) /\ pc = "idle" /\ ret = "ok"
            /\ \A k \in 1 .. n :
                InfoFound[k].length # Len(InfoFound[k].uuid) =>
                    /\ k = n
                    /\ trace[Len(trace)] = InfoFound[n]
                    /\ pc = "idle" /\ ret = "error"
            /\ (pc = "idle" /\ ret = "ok") =>
                /\ Completions = {Len(trace)}
                /\ DOMAIN chr = seen
                /\ \A u \in seen : chr[u] = InfoFound[lastOf(u)].chrhandle

\* C12, its case: the enumeration has returned after two events with the
\* same UUID and different handles.
C12_Witness ==
    /\ op = "characteristics" /\ pc = "idle" /\ ret = "ok"
    /\ Len(InfoFound) = 2
    /\ InfoFound[1].uuid = InfoFound[2].uuid
    /\ InfoFound[1].chrhandle # InfoFound[2].chrhandle

\* C13: a connect, writeAttribute or characteristics call that ends with an
\* error leaves the connected flag, the active slot and the peer address
\* as they were when the call was entered.
C13_FailureAtomicity ==
    (/\ op \in {"connect", "writeAttribute", "characteristics"}
     /\ pc = "idle" /\ ret = "error") =>
        /\ connected_ = entry.connected_
        /\ connection = entry.connection
        /\ address_ = entry.address_

\* The calls that are neither connect nor disconnect.
FrameOps ==
    {"discover", "writeAttribute", "readAttribute", "listen", "characteristics"}

C15_RoundTrip ==
    \A a \in Printed :
        (/\ op = "connect(string)" /\ pc # "connect_parse"
         /\ ss.str = print_address(a)) =>
            /\ ~(pc = "idle" /\ ret = "error")
            /\ address = a

\* The groups of a text, split at its colons.
RECURSIVE Split(_)
Split(str) ==
    IF str = <<>> THEN << <<>> >>
    ELSE LET rest == Split(Tail(str))
         IN  IF Head(str) = ":" THEN << <<>> >> \o rest
             ELSE << <<Head(str)>> \o rest[1] >> \o Tail(rest)

\* Six colon-separated groups of hexadecimal digits and nothing else.
SixGroups(str) ==
    /\ Len(Split(str)) = 6
    /\ \A k \in 1 .. 6 :
        /\ Split(str)[k] # <<>>
        /\ \A j \in DOMAIN Split(str)[k] : IsHexDigit(Split(str)[k][j])

\* C16: connect(string), given a text without whitespace, fails in parsing,
\* before any command is written, exactly when the text is not six
\* colon-separated hexadecimal groups.
C16_FormatError ==
    (/\ op = "connect(string)" /\ pc # "connect_parse"
     /\ \A k \in DOMAIN ss.str : ss.str[k] \notin Whitespace) =>
        ((pc = "idle" /\ ret = "error" /\ trace = <<>>) <=> ~SixGroups(ss.str))

\* C17: between calls, whenever connected() is true the stored peer address
\* is the address passed to the most recent connect that returned normally.
C17_StateCoupling ==
    (pc = "idle" /\ connected_) => address_ = peer

\* C18: after a disconnectAll that returned normally connected() is false
\* and the disconnected event of every slot that connect had adopted or
\* opened, and that no disconnect had closed, has been read.
C18_NoneLeft ==
    (op = "disconnectAll" /\ pc = "idle" /\ ret = "ok") =>
        /\ ~connected_
        /\ entry.opened \subseteq AwaitedSlots

\* The attribute-value events with another handle the call has read.
Earlier == SelectSeq(ValueEvents, LAMBDA e : e.atthandle # handle)

\* readAttribute has buffered, in order, every event with another handle
\* it read, and has not ended without an event with the handle asked for.
BuffersEarlier ==
    op = "readAttribute" =>
        /\ Len(event_queue) = entry.queued + Len(Earlier)
        /\ \A j \in 1 .. Len(Earlier) :
            /\ event_queue[entry.queued + j].handle = Earlier[j].atthandle
            /\ event_queue[entry.queued + j].data = Earlier[j].data
        /\ pc = "idle" =>
            /\ Len(ValueEvents) = Len(Earlier) + 1
            /\ ValueEvents[Len(ValueEvents)].atthandle = handle
        /\ pc # "idle" => ValueEvents = Earlier

\* C19: when the transport delivers an attribute-value event with handle h
\* in the end, readAttribute(h) ends in the end, and it has then buffered
\* every earlier event with another handle; as long as no such event
\* arrives the call does not end and every event read is added to the
\* buffer.
C19_Terminates ==
    /\ []BuffersEarlier
    /\ (op = "readAttribute" /\ pc = "read_value") ~> (pc = "idle")

\* C19, its case: readAttribute ended at the third event, after buffering
\* two events with another handle.
C19_Witness ==
    /\ op = "readAttribute" /\ pc = "idle"
    /\ Len(ValueEvents) = 3
    /\ Len(event_queue) = entry.queued + 2

\* C20: the length field of the command writeAttribute writes is the number
\* of payload bytes sent with it, also for a payload of more than 255
\* bytes.
C20_LengthField ==
    (op = "writeAttribute" /\ trace # <<>>) =>
        trace[1].length = Len(trace[1].payload)

====
